---- MODULE Spec2Model ----
(***************************************************************************)
(* Model of the no_denormals crate (src/src/lib.rs).                       *)
(*                                                                         *)
(* State: one floating-point control register per thread (MXCSR on         *)
(* x86/x86_64, FPCR on aarch64), the stack of no_denormals activations of  *)
(* each thread (one DenormalGuard per activation), the process memory that *)
(* get_csr's stmxcsr stores into, and what the caller of the most recent   *)
(* activation observed.                                                    *)
(***************************************************************************)
EXTENDS Integers, Sequences, FiniteSets, TLC

VARIABLES arch, reg, stack, last, outside, smaller, phase, calls, mem, crashed

vars == <<arch, reg, stack, last, outside, smaller, phase, calls, mem, crashed>>

(***************************************************************************)
(* Bounds.                                                                 *)
(***************************************************************************)
MaxDepth == 2        \* deepest nesting of no_denormals calls
MaxCalls == 2        \* calls the top-level caller of a thread makes
MaxBodySteps == 1    \* operations a computation performs before it ends

Threads == {"A", "B"}
Main == "A"
Archs == {"x86", "aarch64"}
RetVals == {0, 1}
Payloads == {"p1", "p2"}
Addrs == {"m0"}                  \* mapped cell a stray store can land on

(***************************************************************************)
(* Bit arithmetic on register values (naturals).                           *)
(***************************************************************************)
RECURSIVE And(_, _)
And(a, b) ==
    IF a = 0 \/ b = 0 THEN 0
    ELSE (a % 2) * (b % 2) + 2 * And(a \div 2, b \div 2)

RECURSIVE Or(_, _)
Or(a, b) ==
    IF a = 0 THEN b
    ELSE IF b = 0 THEN a
    ELSE (IF a % 2 = 1 \/ b % 2 = 1 THEN 1 ELSE 0) + 2 * Or(a \div 2, b \div 2)

Clear(a, m) == a - And(a, m)
Toggle(a, b) == IF And(a, b) # 0 THEN a - b ELSE a + b
Has(a, m) == And(a, m) = m

(***************************************************************************)
(* The masks (lib.rs 27-33) and the register layout they refer to.         *)
(***************************************************************************)
MaskFtzOnly == 2 ^ 15

X86_MASK == 32832                 \* 0x8040
AARCH64_MASK == 2 ^ 24            \* 1 << 24

FTZ == 2 ^ 15                     \* MXCSR flush-to-zero
DAZ == 2 ^ 6                      \* MXCSR denormals-are-zero
RC == 2 ^ 13                      \* MXCSR rounding control, low bit
UM == 2 ^ 11                      \* MXCSR underflow exception mask
PE == 2 ^ 5                       \* MXCSR precision flag (sticky)
UE == 2 ^ 4                       \* MXCSR underflow flag (sticky)
MXCSR_DEFAULT == 2^12 + 2^11 + 2^10 + 2^9 + 2^8 + 2^7   \* 0x1F80, the six exception masks
FZ == 2 ^ 24                      \* FPCR flush-to-zero
RMODE == 2 ^ 22                   \* FPCR rounding mode, low bit
DN == 2 ^ 25                      \* FPCR default NaN

Mask(a) == IF a = "x86" THEN X86_MASK ELSE AARCH64_MASK

\* Register values a thread can have when it first calls no_denormals.
InitRegs(a) ==
    IF a = "x86"
    THEN {MXCSR_DEFAULT, MXCSR_DEFAULT + DAZ, MXCSR_DEFAULT + FTZ + DAZ,
          MXCSR_DEFAULT + RC + PE}
    ELSE {0, FZ, RMODE + DN}

\* Values a computation may write to the register itself: denormals turned
\* back on, or the rounding mode changed.
WriteVals(a, r) ==
    IF a = "x86" THEN {Clear(r, X86_MASK), Toggle(r, RC)}
    ELSE {Clear(r, AARCH64_MASK), Toggle(r, RMODE)}

(***************************************************************************)
(* tests::half followed by classify (lib.rs 126-128, 139-148): the         *)
(* smallest positive normal f32, or its negation, times 0.5.  The exact    *)
(* result is subnormal; with flush-to-zero in force the hardware returns a *)
(* zero of the same sign and, on x86, raises the sticky underflow and      *)
(* precision flags in MXCSR (on aarch64 the flags live in FPSR, which is   *)
(* not the control register).                                              *)
(***************************************************************************)
Flushes(a, r) ==
    IF a = "x86" THEN And(r, FTZ) # 0 /\ And(r, UM) # 0
    ELSE And(r, FZ) # 0

half(a, r, small) ==
    [class |-> IF Flushes(a, r) THEN "Zero" ELSE "Subnormal", neg |-> small]

halfCsr(a, r) ==
    IF a = "x86" /\ Flushes(a, r) THEN Or(r, UE + PE) ELSE r

(***************************************************************************)
(* DenormalGuard::new and Drop::drop, as values.                           *)
(***************************************************************************)
NewXor(a, control) == Or(control, Mask(a)) - And(control, Mask(a))
NewNoMask(a, control) == control
NewOnlyMask(a, control) == Mask(a)
NewDazOnly(a, control) == IF a = "x86" THEN Or(control, DAZ) ELSE control

\* lib.rs 73 / 84: the value written at scope entry.
NewValue(a, control) == Or(control, Mask(a))

DropRecomputed(a, g, current) == Clear(current, Mask(a))
DropOnSuccessOnly(a, g, current) == IF g.pc = "returned" THEN g.csr ELSE current
DropDefault(a, g, current) == IF a = "x86" THEN MXCSR_DEFAULT ELSE 0

\* lib.rs 101 / 106: the value written at scope exit.
DropValue(a, g, current) == g.csr

ReturnDefault(ret) == 0

\* lib.rs 118: what no_denormals hands back.
ReturnValue(ret) == ret

AfterDropStillLive(pc) == pc

\* lib.rs 116: std::mem::drop takes the guard by value, so once Drop::drop
\* has run the guard is gone; the unwinder likewise drops a local once.
AfterDrop(pc) == IF pc = "returned" THEN "dropped" ELSE "unwound"

PanicWrapped(payload) == "wrapped"

\* lib.rs 113-119: no_denormals has no catch; a panic passes through.
PanicValue(payload) == payload

(***************************************************************************)
(* Activations.                                                            *)
(***************************************************************************)
NoLast == [kind |-> "none", val |-> 0, produced |-> 0, payload |-> "none",
           raised |-> "none", v |-> 0, seen |-> 0, invocations |-> 0,
           touched |-> FALSE, inner |-> 0, log |-> << >>, guard |-> "none",
           through |-> 0]

NoSmaller == [class |-> "none", neg |-> FALSE, small |-> FALSE,
              inScope |-> FALSE, clean |-> FALSE]

Frame(r) ==
    [pc |-> "new", control |-> 0, csr |-> 0, guard |-> "Initial",
     entry |-> r, touched |-> FALSE, wrote |-> FALSE, invocations |-> 0,
     ret |-> 0, payload |-> "none", steps |-> 0, inner |-> 0,
     log |-> << >>, creator |-> "none", releaser |-> "none", through |-> 0]

Event(op, val) == [op |-> op, val |-> val]

DropElsewhere(t) == CHOOSE u \in Threads : u # t

\* lib.rs 35-46, 113-119: the guard is a private local of no_denormals and
\* is neither Send nor Sync, so Drop::drop runs on the thread that runs
\* no_denormals and its ldmxcsr / msr writes that thread's register.
DropThread(t) == t

Depth(t) == Len(stack[t])
Top(t) == stack[t][Len(stack[t])]
SetTop(t, f) == [stack EXCEPT ![t] = [@ EXCEPT ![Len(@)] = f]]
Pop(s) == SubSeq(s, 1, Len(s) - 1)
InBody(t) == Depth(t) > 0 /\ Top(t).pc = "func"
CanStep(t) == InBody(t) /\ Top(t).steps < MaxBodySteps

\* lib.rs 94-119: neither no_denormals nor Drop::drop takes a lock or waits.
Waits(t) == FALSE

Init ==
    /\ arch \in Archs
    /\ \E r \in InitRegs(arch) : reg = [t \in Threads |-> r]
    /\ stack = [t \in Threads |-> << >>]
    /\ last = [t \in Threads |-> NoLast]
    /\ outside = reg
    /\ smaller = [t \in Threads |-> NoSmaller]
    /\ phase = [t \in Threads |-> 0]
    /\ calls = [t \in Threads |-> 0]
    /\ mem = [a \in Addrs |-> 0]
    /\ crashed = FALSE

(***************************************************************************)
(* no_denormals, line 113: the call is made, by the thread's top-level     *)
(* code or by a computation that is itself running inside a scope.         *)
(***************************************************************************)
Call(t) ==
    /\ ~crashed
    /\ \/ /\ Depth(t) = 0
          /\ calls[t] < MaxCalls
          /\ calls' = [calls EXCEPT ![t] = @ + 1]
          /\ stack' = [stack EXCEPT ![t] = <<Frame(reg[t])>>]
       \/ /\ CanStep(t)
          /\ Depth(t) < MaxDepth
          /\ calls' = calls
          /\ stack' = [stack EXCEPT ![t] =
                 Append([@ EXCEPT ![Len(@)].steps = @ + 1], Frame(reg[t]))]
    /\ last' = [last EXCEPT ![t] = NoLast]
    /\ smaller' = [smaller EXCEPT ![t] = NoSmaller]
    /\ UNCHANGED <<arch, reg, outside, phase, mem, crashed>>

(***************************************************************************)
(* get_csr, lines 54-63 (called at line 72).  stmxcsr stores the register  *)
(* to the address held in tmp, a register declared only as an output and   *)
(* never initialised; the mov then loads control from that address.  The   *)
(* address is whatever the register held: a mapped cell (the store lands   *)
(* there) or an unmapped one (the store faults, GetCsrFault).              *)
(***************************************************************************)
get_csr(t, tmp) ==
    /\ ~crashed
    /\ arch = "x86"
    /\ Depth(t) > 0
    /\ Top(t).pc = "new"
    /\ mem' = [mem EXCEPT ![tmp] = reg[t]]
    /\ stack' = SetTop(t, [Top(t) EXCEPT
           !.pc = "read", !.control = mem'[tmp], !.creator = t,
           !.log = Append(@, Event("read", mem'[tmp]))])
    /\ UNCHANGED <<arch, reg, last, outside, smaller, phase, calls, crashed>>

GetCsrFault(t) ==
    /\ ~crashed
    /\ arch = "x86"
    /\ Depth(t) > 0
    /\ Top(t).pc = "new"
    /\ crashed' = TRUE
    /\ UNCHANGED <<arch, reg, stack, last, outside, smaller, phase, calls, mem>>

\* lib.rs 82-83: mrs reads FPCR into a register; no memory is involved.
Mrs(t) ==
    /\ ~crashed
    /\ arch = "aarch64"
    /\ Depth(t) > 0
    /\ Top(t).pc = "new"
    /\ stack' = SetTop(t, [Top(t) EXCEPT
           !.pc = "read", !.control = reg[t], !.creator = t,
           !.log = Append(@, Event("read", reg[t]))])
    /\ UNCHANGED <<arch, reg, last, outside, smaller, phase, calls, mem, crashed>>

(***************************************************************************)
(* set_csr(mxcsr | X86_MASK), line 73 (msr at line 84), and the            *)
(* construction of the guard, lines 75-78 (86-89).                         *)
(***************************************************************************)
set_csr(t) ==
    /\ ~crashed
    /\ Depth(t) > 0
    /\ Top(t).pc = "read"
    /\ reg' = [reg EXCEPT ![t] = NewValue(arch, Top(t).control)]
    /\ stack' = SetTop(t, [Top(t) EXCEPT
           !.pc = "guarded",
           !.csr = Top(t).control,
           !.guard = "Active",
           !.log = Append(@, Event("write", NewValue(arch, Top(t).control)))])
    /\ UNCHANGED <<arch, last, outside, smaller, phase, calls, mem, crashed>>

\* lib.rs 115: func() is called.
Invoke(t) ==
    /\ ~crashed
    /\ Depth(t) > 0
    /\ Top(t).pc = "guarded"
    /\ stack' = SetTop(t, [Top(t) EXCEPT !.pc = "func",
                                         !.invocations = @ + 1,
                                         !.log = Append(@, Event("func", 0))])
    /\ UNCHANGED <<arch, reg, last, outside, smaller, phase, calls, mem, crashed>>

(***************************************************************************)
(* What a computation, or the code around the calls, does.                 *)
(***************************************************************************)
\* True when nothing but the guards decides whether results are flushed:
\* the thread started with the mask bits clear and no running computation
\* has written the register.
Clean(t) ==
    /\ And(outside[t], Mask(arch)) = 0
    /\ \A i \in 1 .. Depth(t) : ~stack[t][i].wrote

NextPhase(p, in, class) ==
    IF p = 0 /\ ~in /\ class = "Subnormal" THEN 1
    ELSE IF p = 1 /\ in /\ class = "Zero" THEN 2
    ELSE IF p = 2 /\ ~in /\ class = "Subnormal" THEN 3
    ELSE p

\* tests::half + classify, outside any scope or inside a computation.
Half(t, small) ==
    /\ ~crashed
    /\ \/ /\ Depth(t) = 0
          /\ outside' = [outside EXCEPT ![t] = halfCsr(arch, reg[t])]
          /\ stack' = stack
       \/ /\ CanStep(t)
          /\ outside' = outside
          /\ stack' = SetTop(t, [Top(t) EXCEPT
                 !.steps = @ + 1,
                 !.touched = @ \/ halfCsr(arch, reg[t]) # reg[t]])
    /\ reg' = [reg EXCEPT ![t] = halfCsr(arch, reg[t])]
    /\ LET res == half(arch, reg[t], small) IN
         /\ smaller' = [smaller EXCEPT ![t] =
                [class |-> res.class, neg |-> res.neg, small |-> small,
                 inScope |-> Depth(t) > 0, clean |-> Clean(t)]]
         /\ phase' = [phase EXCEPT ![t] =
                IF Clean(t) THEN NextPhase(@, Depth(t) > 0, res.class) ELSE @]
    /\ last' = [last EXCEPT ![t] = NoLast]
    /\ UNCHANGED <<arch, calls, mem, crashed>>

\* The computation writes the control register itself.
BodyWrite(t) ==
    /\ ~crashed
    /\ CanStep(t)
    /\ \E w \in WriteVals(arch, reg[t]) :
         /\ reg' = [reg EXCEPT ![t] = w]
         /\ stack' = SetTop(t, [Top(t) EXCEPT !.steps = @ + 1,
                                              !.touched = TRUE,
                                              !.wrote = TRUE])
    /\ last' = [last EXCEPT ![t] = NoLast]
    /\ smaller' = [smaller EXCEPT ![t] = NoSmaller]
    /\ UNCHANGED <<arch, outside, phase, calls, mem, crashed>>

\* The computation returns v: `let ret = func();` completes.
BodyReturn(t, v) ==
    /\ ~crashed
    /\ InBody(t)
    /\ stack' = SetTop(t, [Top(t) EXCEPT !.pc = "returned", !.ret = v])
    /\ last' = [last EXCEPT ![t] = NoLast]
    /\ smaller' = [smaller EXCEPT ![t] = NoSmaller]
    /\ UNCHANGED <<arch, reg, outside, phase, calls, mem, crashed>>

\* The computation panics with payload p: unwinding starts in no_denormals.
BodyPanic(t, p) ==
    /\ ~crashed
    /\ InBody(t)
    /\ stack' = SetTop(t, [Top(t) EXCEPT !.pc = "unwinding", !.payload = p])
    /\ last' = [last EXCEPT ![t] = NoLast]
    /\ smaller' = [smaller EXCEPT ![t] = NoSmaller]
    /\ UNCHANGED <<arch, reg, outside, phase, calls, mem, crashed>>

(***************************************************************************)
(* Drop::drop, lines 94-109: run by std::mem::drop(guard) at line 116, or  *)
(* by the unwinder when func() panicked while the guard was live.          *)
(***************************************************************************)
drop(t) ==
    /\ ~crashed
    /\ Depth(t) > 0
    /\ Top(t).pc \in {"returned", "unwinding"}
    /\ ~Waits(t)
    /\ LET u == DropThread(t)
           w == DropValue(arch, Top(t), reg[u])
       IN  /\ reg' = [reg EXCEPT ![u] = w]
           /\ stack' = SetTop(t, [Top(t) EXCEPT
                  !.pc = AfterDrop(@),
                  !.guard = "Terminal",
                  !.releaser = u,
                  !.log = Append(@, Event("write", w))])
    /\ last' = [last EXCEPT ![t] = NoLast]
    /\ UNCHANGED <<arch, outside, smaller, phase, calls, mem, crashed>>

Observed(f, kind, r) ==
    [kind |-> kind,
     val |-> IF kind = "return" THEN ReturnValue(f.ret) ELSE 0,
     produced |-> IF kind = "return" THEN f.ret ELSE 0,
     payload |-> IF kind = "panic" THEN PanicValue(f.payload) ELSE "none",
     raised |-> IF kind = "panic" THEN f.payload ELSE "none",
     v |-> f.entry,
     seen |-> r,
     invocations |-> f.invocations,
     touched |-> f.touched,
     inner |-> f.inner,
     log |-> f.log,
     guard |-> f.guard,
     through |-> f.through]

\* lib.rs 118: `ret` is returned to the caller.
Return(t) ==
    /\ ~crashed
    /\ Depth(t) > 0
    /\ Top(t).pc = "dropped"
    /\ last' = [last EXCEPT ![t] = Observed(Top(t), "return", reg[t])]
    /\ stack' = [stack EXCEPT ![t] =
           IF Len(@) = 1 THEN << >>
           ELSE [Pop(@) EXCEPT ![Len(@) - 1].inner = @ + 1]]
    /\ UNCHANGED <<arch, reg, outside, smaller, phase, calls, mem, crashed>>

\* The panic leaves no_denormals.  The caller either catches it
\* (catch_unwind) or, when the caller is itself a computation inside an
\* enclosing scope, may let it pass, which unwinds the enclosing activation.
Propagate(t, catch) ==
    /\ ~crashed
    /\ Depth(t) > 0
    /\ Top(t).pc = "unwound"
    /\ Depth(t) = 1 => catch
    /\ last' = [last EXCEPT ![t] = Observed(Top(t), "panic", reg[t])]
    /\ stack' = [stack EXCEPT ![t] =
           IF Len(@) = 1 THEN << >>
           ELSE IF catch
                THEN [Pop(@) EXCEPT ![Len(@) - 1].inner = @ + 1]
                ELSE [Pop(@) EXCEPT ![Len(@) - 1].inner = @ + 1,
                                    ![Len(@) - 1].through = Top(t).through + 1,
                                    ![Len(@) - 1].pc = "unwinding",
                                    ![Len(@) - 1].payload =
                                        PanicValue(Top(t).payload)]]
    /\ UNCHANGED <<arch, reg, outside, smaller, phase, calls, mem, crashed>>

Step(t) ==
    \/ Call(t)
    \/ \E tmp \in Addrs : get_csr(t, tmp)
    \/ GetCsrFault(t)
    \/ Mrs(t)
    \/ set_csr(t)
    \/ Invoke(t)
    \/ \E small \in BOOLEAN : Half(t, small)
    \/ BodyWrite(t)
    \/ \E v \in RetVals : BodyReturn(t, v)
    \/ \E p \in Payloads : BodyPanic(t, p)
    \/ drop(t)
    \/ Return(t)
    \/ \E catch \in BOOLEAN : Propagate(t, catch)

Next == Step(Main)

Spec == Init /\ [][Next]_vars

(***************************************************************************)
(* Two threads, each with its own register (lib.rs 41-45: the flags are    *)
(* local to each thread), running no_denormals in any interleaving.        *)
(***************************************************************************)
\* Register values of the threads of the two-thread specification: the
\* default, and one with other control bits set.
RegsMT(a) ==
    IF a = "x86" THEN {MXCSR_DEFAULT, MXCSR_DEFAULT + RC + DAZ}
    ELSE {0, RMODE + DN}

InitMT ==
    /\ arch \in Archs
    /\ reg \in [Threads -> RegsMT(arch)]
    /\ stack = [t \in Threads |-> << >>]
    /\ last = [t \in Threads |-> NoLast]
    /\ outside = reg
    /\ smaller = [t \in Threads |-> NoSmaller]
    /\ phase = [t \in Threads |-> 0]
    /\ calls = [t \in Threads |-> 0]
    /\ mem = [a \in Addrs |-> 0]
    /\ crashed = FALSE

\* Each thread makes one call, without nesting: what the threads could do
\* to one another does not depend on how often or how deep each one calls.
StepMT(t) ==
    /\ Step(t)
    /\ calls'[t] <= 1
    /\ Len(stack'[t]) <= 1

NextMT == \E t \in Threads : StepMT(t)

SpecMT == InitMT /\ [][NextMT]_vars

\* no_denormals' own steps once the computation has ended: the release of
\* the guard and the return or the onward propagation of the panic.  They
\* are synchronous code of the calling thread (lib.rs 116-118), so a thread
\* that keeps running takes them: weak fairness per thread.  Nothing is
\* assumed about the computations themselves.
Exit(t) ==
    \/ drop(t)
    \/ Return(t)
    \/ \E catch \in BOOLEAN : Propagate(t, catch)

FairSpecMT == SpecMT /\ \A t \in Threads : WF_vars(Exit(t))

(***************************************************************************)
(* Properties.                                                             *)
(*                                                                         *)
(* last[t] is what the caller of the activation that ended last on thread  *)
(* t observed, and is cleared by the thread's next operation: it holds     *)
(* exactly in the state immediately after no_denormals returned or         *)
(* unwound.  last[t].v is the register value immediately before that       *)
(* activation was entered.  A frame is "touched" once its own computation  *)
(* changed the register, by writing it or by arithmetic that raised sticky *)
(* flags in it; "wrote" covers the explicit writes only.                   *)
(***************************************************************************)

\* C1: for every initial register value v and every computation that
\* returns normally, also one that wrote the register or raised sticky
\* flags in it, the register read by the top-level caller immediately after
\* no_denormals returns equals v bit for bit.
C1_RestoredAfterReturn ==
    \A t \in Threads :
        (Depth(t) = 0 /\ last[t].kind = "return") => reg[t] = last[t].v

\* A top-level call returned whose computation had changed the register.
C1_Witness ==
    \E t \in Threads :
        /\ Depth(t) = 0
        /\ last[t].kind = "return"
        /\ last[t].touched
        /\ reg[t] = last[t].v

\* C2: when the computation panics, the register is restored to the value
\* it had immediately before no_denormals was entered: in the state in which
\* the panic has left no_denormals the register equals that value.
C2_RestoredAfterPanic ==
    \A t \in Threads : last[t].kind = "panic" => reg[t] = last[t].v

\* A panic left a top-level call that had been entered with the mask bits
\* clear, so that the scope had changed the register.
C2_Witness ==
    \E t \in Threads :
        /\ Depth(t) = 0
        /\ last[t].kind = "panic"
        /\ And(last[t].v, Mask(arch)) = 0
        /\ reg[t] = last[t].v

C5_FlushedExactlyInScope ==
    \A t \in Threads :
        (smaller[t].class # "none" /\ smaller[t].clean) =>
            /\ smaller[t].class =
                   IF smaller[t].inScope THEN "Zero" ELSE "Subnormal"
            /\ smaller[t].neg = smaller[t].small

\* The sequence of the tests: Subnormal outside, Zero inside, Subnormal
\* again after the scope, here ending with the negated input.
C5_Witness ==
    \E t \in Threads :
        /\ phase[t] = 3
        /\ Depth(t) = 0
        /\ calls[t] > 0
        /\ smaller[t].class = "Subnormal"
        /\ smaller[t].small

\* C6: immediately after a scope nested inside another one has exited, and
\* the enclosing computation not having changed the register itself, the
\* register is the enclosing scope's denormals-disabled value, (value before
\* the enclosing entry) | mask, and differs from the value before the
\* enclosing entry whenever that value lacked a mask bit; that value is back
\* once the enclosing call has returned.
C6_InnerExitKeepsOuter ==
    \A t \in Threads :
        /\ (InBody(t) /\ last[t].kind # "none" /\ ~Top(t).touched) =>
               /\ reg[t] = Or(Top(t).entry, Mask(arch))
               /\ ~Has(Top(t).entry, Mask(arch)) => reg[t] # Top(t).entry
        /\ (Depth(t) = 0 /\ last[t].kind = "return" /\ last[t].inner > 0) =>
               reg[t] = last[t].v

\* An inner scope has just returned into an outermost computation whose
\* scope was entered with the mask bits clear.
C6_Witness ==
    \E t \in Threads :
        /\ Depth(t) = 1
        /\ InBody(t)
        /\ last[t].kind = "return"
        /\ ~Top(t).touched
        /\ And(Top(t).entry, Mask(arch)) = 0

\* C7: in every well-nested sequence of calls on a thread, each scope that
\* returns leaves the register at the value found at its own entry, at
\* every depth, and whenever the thread is outside every scope (before the
\* first call, between two calls, after the last) the register has the
\* value the thread's top-level code left in it.
C7_WellNested ==
    \A t \in Threads :
        /\ last[t].kind = "return" => reg[t] = last[t].v
        /\ Depth(t) = 0 => reg[t] = outside[t]

\* The second of two sequential top-level calls has returned, and it had a
\* scope nested inside it.
C7_Witness ==
    \E t \in Threads :
        /\ Depth(t) = 0
        /\ calls[t] >= 2
        /\ last[t].kind = "return"
        /\ last[t].inner > 0
        /\ And(outside[t], Mask(arch)) = 0

\* C8: a panic of the computation reaches the caller of no_denormals with
\* the payload it was raised with, and at the moment it reaches the caller
\* the register already has the value from before scope entry.
C8_PanicUnchangedAfterRestore ==
    \A t \in Threads :
        last[t].kind = "panic" =>
            /\ last[t].payload = last[t].raised
            /\ last[t].seen = last[t].v

\* A panic with payload p2 reached the top-level caller of a scope that
\* had changed the register.
C8_Witness ==
    \E t \in Threads :
        /\ Depth(t) = 0
        /\ last[t].kind = "panic"
        /\ last[t].raised = "p2"
        /\ And(last[t].v, Mask(arch)) = 0

\* C9: no_denormals invokes the computation exactly once per call: never
\* before the guard exists, once from then on, never again; and on normal
\* completion the caller receives the value the computation returned.
C9_ExactlyOnce ==
    \A t \in Threads :
        /\ \A i \in 1 .. Depth(t) :
               stack[t][i].invocations =
                   IF stack[t][i].pc \in {"new", "read", "guarded"} THEN 0 ELSE 1
        /\ last[t].kind = "return" =>
               /\ last[t].invocations = 1
               /\ last[t].val = last[t].produced

\* A call returned the value 1.
C9_Witness ==
    \E t \in Threads :
        /\ last[t].kind = "return"
        /\ last[t].produced = 1
        /\ last[t].invocations = 1

\* C10: the register read returns the current bit pattern of the register
\* and has no side effect: it leaves the register unchanged and writes no
\* memory other than its own result.
ReadStep(t) ==
    /\ Depth(t) > 0
    /\ Top(t).pc = "new"
    /\ Len(stack'[t]) = Len(stack[t])
    /\ stack'[t][Len(stack'[t])].pc = "read"

C10_ReadHasNoSideEffect ==
    [][\A t \in Threads :
          ReadStep(t) =>
              /\ stack'[t][Len(stack'[t])].control = reg[t]
              /\ reg' = reg
              /\ mem' = mem]_vars

\* C11: with two threads, a scope entered, active or exited on one thread
\* never changes the other thread's register: a thread outside every scope
\* has the register value its own top-level code left, a thread inside an
\* untouched scope has its own entry value | mask, and a thread computing
\* outside its own scopes with flush-to-zero clear in its own register gets
\* a Subnormal result whatever the other thread's scopes are doing.
C11_ThreadsDoNotInteract ==
    \A u \in Threads :
        /\ Depth(u) = 0 => reg[u] = outside[u]
        /\ (InBody(u) /\ ~Top(u).touched) =>
               reg[u] = Or(Top(u).entry, Mask(arch))
        /\ (/\ smaller[u].class # "none"
            /\ ~smaller[u].inScope
            /\ ~Flushes(arch, outside[u]))
           => smaller[u].class = "Subnormal"

\* One thread is inside an active scope with the mask bits set while the
\* other, which has already been through a scope of its own, computes a
\* Subnormal result outside, and the two registers differ.
C11_Witness ==
    \E t \in Threads : \E u \in Threads \ {t} :
        /\ InBody(t)
        /\ Has(reg[t], Mask(arch))
        /\ Depth(u) = 0
        /\ calls[u] = 1
        /\ smaller[u].class = "Subnormal"
        /\ And(reg[u], Mask(arch)) = 0

\* C12: every guard is held by the thread that created it, and the thread
\* whose register a guard's restore write changes is the thread whose
\* register was read into the guard's snapshot.
C12_GuardStaysOnItsThread ==
    \A t \in Threads : \A i \in 1 .. Depth(t) :
        LET f == stack[t][i] IN
        /\ f.creator = IF f.pc = "new" THEN "none" ELSE t
        /\ f.releaser = IF f.guard = "Terminal" THEN f.creator ELSE "none"

\* One thread has released its guard while the other holds an active one.
C12_Witness ==
    \E t \in Threads : \E u \in Threads \ {t} :
        /\ Depth(t) > 0
        /\ Top(t).guard = "Terminal"
        /\ Top(t).releaser = t
        /\ Depth(u) > 0
        /\ Top(u).guard = "Active"
        /\ Top(u).creator = u

\* C13: each call performs, in this order and each exactly once, one
\* register read, one write of snapshot | mask, the computation, and one
\* write of the snapshot; its guard is Initial before the first write,
\* Active up to the second and Terminal after it, and there is never a
\* second restore write.
ExpectedLog(a, v) ==
    <<Event("read", v), Event("write", Or(v, Mask(a))), Event("func", 0),
      Event("write", v)>>

Done(pc) ==
    IF pc = "new" THEN 0
    ELSE IF pc = "read" THEN 1
    ELSE IF pc = "guarded" THEN 2
    ELSE IF pc \in {"func", "returned", "unwinding"} THEN 3
    ELSE 4

C13_ReadWriteRunRestoreOnce ==
    \A t \in Threads :
        /\ \A i \in 1 .. Depth(t) :
               LET f == stack[t][i] IN
               /\ f.log = SubSeq(ExpectedLog(arch, f.entry), 1, Done(f.pc))
               /\ f.guard = IF Done(f.pc) < 2 THEN "Initial"
                            ELSE IF Done(f.pc) < 4 THEN "Active"
                            ELSE "Terminal"
        /\ last[t].kind # "none" =>
               /\ last[t].log = ExpectedLog(arch, last[t].v)
               /\ last[t].guard = "Terminal"

\* A call has returned whose two writes stored different values.
C13_Witness ==
    \E t \in Threads :
        /\ last[t].kind = "return"
        /\ Len(last[t].log) = 4
        /\ last[t].log[2].val # last[t].log[4].val
        /\ last[t].log[4].val = reg[t]

\* C14: scope exit writes the saved snapshot, not a value recomputed from
\* the current register: the snapshot field of a guard is the value read at
\* entry for as long as the guard exists, and after exit the mask bits that
\* are set are exactly those that were set before entry.
C14_SnapshotVerbatim ==
    \A t \in Threads :
        /\ \A i \in 1 .. Depth(t) :
               stack[t][i].guard # "Initial" =>
                   stack[t][i].csr = stack[t][i].entry
        /\ last[t].kind # "none" =>
               /\ And(reg[t], Mask(arch)) = And(last[t].v, Mask(arch))
               /\ last[t].log[4].val = last[t].v

\* A scope entered on x86 with denormals-are-zero set and flush-to-zero
\* clear has exited, and exactly that bit is set again.
C14_Witness ==
    \E t \in Threads :
        /\ arch = "x86"
        /\ last[t].kind = "return"
        /\ And(last[t].v, X86_MASK) = DAZ
        /\ And(reg[t], X86_MASK) = DAZ

\* C15: the mask is a constant per architecture: on x86 the flush-to-zero
\* bit (bit 15) or-ed with the denormals-are-zero bit (bit 6) and nothing
\* else, on aarch64 bit 24 alone; the entry write sets exactly these bits.
MaskBits(a) == IF a = "x86" THEN 2 ^ 15 + 2 ^ 6 ELSE 2 ^ 24

C15_MaskConstants ==
    /\ X86_MASK = Or(FTZ, DAZ)
    /\ AARCH64_MASK = FZ
    /\ \A t \in Threads :
           (Depth(t) > 0 /\ Top(t).pc = "guarded") =>
               /\ Has(reg[t], MaskBits(arch))
               /\ Clear(reg[t], MaskBits(arch)) =
                      Clear(Top(t).control, MaskBits(arch))

\* A guard has just been constructed from a register without mask bits,
\* and the register is that value plus the mask bits.
C15_Witness ==
    \E t \in Threads :
        /\ Depth(t) > 0
        /\ Top(t).pc = "guarded"
        /\ And(Top(t).control, MaskBits(arch)) = 0
        /\ reg[t] = Top(t).control + MaskBits(arch)

\* C16: once the computation has ended, by returning or by panicking, the
\* release of the guard is enabled whatever the other threads are doing,
\* and under weak fairness of the calling thread the call ends, observed
\* by its caller with the guard Terminal.
Ended(t) == Depth(t) > 0 /\ Top(t).pc \in {"returned", "unwinding"}

C16_CallTerminates ==
    \A t \in Threads :
        /\ [](Ended(t) => ENABLED drop(t))
        /\ Ended(t) ~> (last[t].kind # "none" /\ last[t].guard = "Terminal")

\* C17: a scope entered while every mask bit is already set does not change
\* the register: after its entry write, during its computation as long as
\* that leaves the register alone, and after its exit write the register
\* has the value it had just before the entry.
C17_NoOpWhenMaskSet ==
    \A t \in Threads :
        /\ (/\ Depth(t) > 0
            /\ Top(t).pc # "new"
            /\ Has(Top(t).entry, Mask(arch))
            /\ ~Top(t).touched \/ Top(t).pc \in {"dropped", "unwound"})
           => /\ reg[t] = Top(t).entry
              /\ \A k \in 1 .. Len(Top(t).log) :
                     Top(t).log[k].op = "write" => Top(t).log[k].val = Top(t).entry
        /\ (last[t].kind # "none" /\ Has(last[t].v, Mask(arch))) =>
               reg[t] = last[t].v

\* An inner scope, nested in an outer one that was entered with the mask
\* bits clear, has made both its writes without the computation having
\* changed the register.
C17_Witness ==
    \E t \in Threads :
        /\ Depth(t) = 2
        /\ Top(t).pc = "dropped"
        /\ ~Top(t).touched
        /\ Has(Top(t).entry, Mask(arch))
        /\ And(stack[t][1].entry, Mask(arch)) = 0
        /\ reg[t] = Top(t).entry

\* C18: guards are released innermost first: every activation below the
\* innermost one still has its guard Active; and when a panic raised in a
\* nested scope has passed through the enclosing scopes, each of them wrote
\* its own snapshot, and the register equals the value before the entry of
\* the scope it has just left.
C18_UnwindInStackOrder ==
    \A t \in Threads :
        /\ \A i \in 1 .. (Depth(t) - 1) :
               /\ stack[t][i].guard = "Active"
               /\ stack[t][i].pc = "func"
        /\ last[t].kind = "panic" =>
               /\ last[t].guard = "Terminal"
               /\ last[t].log[4] = Event("write", last[t].v)
               /\ reg[t] = last[t].v

\* A panic raised in an inner scope has left the outermost call, which had
\* been entered with the mask bits clear.
C18_Witness ==
    \E t \in Threads :
        /\ Depth(t) = 0
        /\ last[t].kind = "panic"
        /\ last[t].through > 0
        /\ And(last[t].v, Mask(arch)) = 0
        /\ reg[t] = last[t].v

====
